---- MODULE Spec2Model ----
(***************************************************************************)
(* Model of the AURA voice agent (src/src/voiceagent): the entrypoint that *)
(* connects, resolves the dispatch metadata, composes the AgentConfig and  *)
(* starts an AuraAgent; the AuraAgent event handlers; the                  *)
(* TranscriptRecorder.                                                     *)
(*                                                                         *)
(* Python values are modelled as records [t, s, items]: t is the JSON type,*)
(* s the text of a string or number, items the elements of a list (or the  *)
(* flattened key/value pairs of an object).  Texts that the program builds *)
(* with f-strings are sequences of string tokens, so that "contains" and   *)
(* "on a line of its own" can be stated; "\n" is a token of its own.       *)
(***************************************************************************)
EXTENDS Integers, Sequences, FiniteSets, TLC

(***************************************************************************)
(* Bounds of the model.                                                    *)
(***************************************************************************)
MaxJobs == 2
MaxChat == 2
MaxReads == 2

(***************************************************************************)
(* Program constants.                                                      *)
(***************************************************************************)
max_connect_retries == 3
PollAttempts == 5
StartThreshold == 10
StopThreshold == 10

(***************************************************************************)
(* JSON / Python values.                                                   *)
(***************************************************************************)
JStr(x) == [t |-> "str", s |-> x, items |-> <<>>]
JNum(x) == [t |-> "num", s |-> x, items |-> <<>>]
JList(xs) == [t |-> "list", s |-> "", items |-> xs]
JObj(kv) == [t |-> "obj", s |-> "", items |-> kv]
JNull == [t |-> "null", s |-> "", items |-> <<>>]
Absent == [t |-> "absent", s |-> "", items |-> <<>>]
Unbound == [t |-> "unbound", s |-> "", items |-> <<>>]

\* "is not None" in the place of truthiness.
TruthyNotNone(v) == v.t \notin {"null", "absent", "unbound"}

\* Python truthiness of a value: None, "", 0, [] and {} are falsy.
Truthy(v) ==
    CASE v.t = "str" -> v.s # ""
      [] v.t = "num" -> v.s # "0"
      [] v.t = "list" -> v.items # <<>>
      [] v.t = "obj" -> v.items # <<>>
      [] OTHER -> FALSE

\* hash(v) succeeds: lists and dicts are unhashable.
Hashable(v) == v.t \notin {"list", "obj"}

\* iter(v) succeeds: a number (or None) is not iterable.
Iterable(v) == v.t \in {"list", "obj", "str"}

\* str(v) as an f-string renders it; lists and objects are rendered by a tag
\* since no claim depends on their rendering.
Str(v) ==
    CASE v.t = "str" -> v.s
      [] v.t = "num" -> v.s
      [] v.t = "null" -> "None"
      [] v.t = "list" -> "<list>"
      [] OTHER -> "<dict>"

Keys == <<"userId", "conversationId", "agentName", "topic", "topicGreeting",
          "topicInstruction", "nickname", "memories", "userProfile">>

KeySet == {Keys[i] : i \in 1..Len(Keys)}

EmptyDict == [k \in KeySet |-> Absent]

\* dict.get(key, default): the default only when the key is absent.
DictGet(data, key, default) ==
    IF data[key].t = "absent" THEN default ELSE data[key]

(***************************************************************************)
(* Metadata strings.  A metadata value is its text together with what      *)
(* json.loads makes of it; len() is the length of the text.                *)
(***************************************************************************)
RECURSIVE JoinStr(_, _)
JoinStr(xs, sep) ==
    IF xs = <<>> THEN ""
    ELSE IF Len(xs) = 1 THEN xs[1]
    ELSE xs[1] \o sep \o JoinStr(Tail(xs), sep)

Quote(x) == "\"" \o x \o "\""

RECURSIVE QuoteAll(_)
QuoteAll(xs) == IF xs = <<>> THEN <<>> ELSE <<Quote(xs[1])>> \o QuoteAll(Tail(xs))

RECURSIVE PairsText(_)
PairsText(kv) ==
    IF Len(kv) < 2 THEN <<>>
    ELSE <<Quote(kv[1]) \o ":" \o Quote(kv[2])>> \o PairsText(Tail(Tail(kv)))

\* The JSON text of a value.
ValText(v) ==
    CASE v.t = "str" -> Quote(v.s)
      [] v.t = "num" -> v.s
      [] v.t = "list" -> "[" \o JoinStr(QuoteAll(v.items), ",") \o "]"
      [] v.t = "obj" -> "{" \o JoinStr(PairsText(v.items), ",") \o "}"
      [] OTHER -> "null"

RECURSIVE FieldTexts(_, _)
FieldTexts(data, i) ==
    IF i > Len(Keys) THEN <<>>
    ELSE (IF data[Keys[i]].t = "absent" THEN <<>>
          ELSE <<Quote(Keys[i]) \o ":" \o ValText(data[Keys[i]])>>)
         \o FieldTexts(data, i + 1)

\* The JSON text of an object with the known keys that are present.
Dumps(data) == "{" \o JoinStr(FieldTexts(data, 1), ",") \o "}"

\* ctx.job.metadata / ctx.room.metadata holding the JSON text of an object.
MetaOf(data) == [text |-> Dumps(data), json |-> "object", data |-> data]
\* A text that holds an object with none of the known keys.
MetaOther(text) == [text |-> text, json |-> "object", data |-> EmptyDict]
\* A text that is valid JSON but not an object (a list, a number, ...).
MetaNonObject(text) == [text |-> text, json |-> "nonobject", data |-> EmptyDict]
\* A text that is not JSON.
MetaInvalid(text) == [text |-> text, json |-> "invalid", data |-> EmptyDict]
\* No metadata: None or "" (both falsy, both of length 0 where len is taken).
MetaNone == [text |-> "", json |-> "invalid", data |-> EmptyDict]

MetaTruthy(m) == m.text # ""
MetaLen(m) == Len(m.text)

(***************************************************************************)
(* agents.py: AgentConfig and the persona registry.  A system prompt and a *)
(* greeting are token sequences; the persona texts are one token each.     *)
(***************************************************************************)
AgentConfig(name, system_prompt, language, greeting) ==
    [name |-> name, system_prompt |-> system_prompt,
     language |-> language, greeting |-> greeting]

AURA_COUNSELOR ==
    AgentConfig("AURA",
                <<"You are AURA, a supportive and professional AI mental health counselor. (...)">>,
                "en",
                <<"Hi, I'm AURA. I'm here to listen and support you. How are you feeling today?">>)

AURA_CHINESE ==
    AgentConfig("AURA",
                <<"[zh] You are AURA, a professional and warm AI counselor. (...)">>,
                "zh",
                <<"[zh] Hello, I am AURA. I am here to listen and support you. How do you feel today?">>)

\* The registry as the module agents.py builds it at import.
AGENTS_AtStart == [aura |-> AURA_COUNSELOR, aura_zh |-> AURA_CHINESE]

\* AGENTS.get(key, default): raises TypeError on an unhashable key (the
\* caller checks Hashable first); any other key that is not a name of the
\* registry yields the default.
AgentsGet(registry, key, default) ==
    IF key.t = "str" /\ key.s \in DOMAIN registry THEN registry[key.s] ELSE default

\* The name under which the looked-up object lives in the registry: config
\* is a reference to that object until dataclasses.replace copies it.
AgentsRef(registry, key, default) ==
    IF key.t = "str" /\ key.s \in DOMAIN registry THEN key.s ELSE default

(***************************************************************************)
(* entrypoint, section 2: the locals after the dispatch payload has been   *)
(* processed.  error: the except clause of line 224 ran.                   *)
(***************************************************************************)
DefaultLocals ==
    [target_agent_id |-> JStr("aura_zh"),
     user_nickname |-> JStr("User"),
     memory_context |-> <<>>,
     user_id |-> JNull,
     conversation_id |-> JNull,
     topic |-> JNull,
     topic_greeting |-> Unbound,
     topic_instruction |-> Unbound,
     error |-> FALSE]

\* for m in v: the elements of a list, the keys of a dict, the characters of
\* a string (strings of at most one character are all the inputs hold).
IterItems(v) ==
    CASE v.t = "list" -> v.items
      [] v.t = "obj" -> [i \in 1..(Len(v.items) \div 2) |-> v.items[2 * i - 1]]
      [] OTHER -> IF v.s = "" THEN <<>> ELSE <<v.s>>

\* "\n".join([f"- {m}" for m in memories])
RECURSIVE MemoryListText(_)
MemoryListText(ms) ==
    IF ms = <<>> THEN <<>>
    ELSE IF Len(ms) = 1 THEN <<"- ", ms[1]>>
    ELSE <<"- ", ms[1], "\n">> \o MemoryListText(Tail(ms))

\* The f-string of line 223.
MemoryContext(user_nickname, ms) ==
    <<"\n", "---", "\n", "[User Context & Memories]", "\n",
      "User Name: ", Str(user_nickname), "\n", "Relevant Memories:", "\n">>
    \o MemoryListText(ms)
    \o <<"\n", "\n", "IMPORTANT: You MUST use the user's name (", Str(user_nickname),
         ") and their past memories to make the conversation feel warm, personal, and continuous. Do not be generic.",
         "\n", "---", "\n">>

\* Lines 208-225: json.loads and the reads of the fields, in the order of
\* the code; an exception leaves the locals assigned before it as they are.
ProcessDispatch(dispatch_info) ==
    IF ~MetaTruthy(dispatch_info) THEN DefaultLocals
    ELSE IF dispatch_info.json # "object"
      \* json.loads raised, or data.get raised AttributeError
      THEN [DefaultLocals EXCEPT !.error = TRUE]
    ELSE
      LET data == dispatch_info.data
          read == [DefaultLocals EXCEPT
                     !.user_id = DictGet(data, "userId", JNull),
                     !.conversation_id = DictGet(data, "conversationId", JNull),
                     !.target_agent_id = DictGet(data, "agentName", JStr("aura_zh")),
                     !.topic = DictGet(data, "topic", JNull),
                     !.topic_greeting = DictGet(data, "topicGreeting", JNull),
                     !.topic_instruction = DictGet(data, "topicInstruction", JNull),
                     !.user_nickname = DictGet(data, "nickname", JStr("User"))]
          memories == DictGet(data, "memories", JList(<<>>))
      IN IF ~Truthy(memories) THEN read
         ELSE IF ~Iterable(memories) THEN [read EXCEPT !.error = TRUE]
         ELSE [read EXCEPT
                 !.memory_context = MemoryContext(read.user_nickname, IterItems(memories))]

(***************************************************************************)
(* entrypoint, sections 3 and 3.1: the composition of the configuration.   *)
(* A composition value is [registry, ref, config, raised]: the registry,   *)
(* the registry name config refers to ("" once config is a copy), the      *)
(* configuration, and whether an exception left the entrypoint.            *)
(***************************************************************************)
\* config.field = value in the place of dataclasses.replace: the object that
\* config refers to is changed, and it is the registry's while ref names it.
ReplaceInPlace(c, field, value) ==
    [c EXCEPT !.config = [c.config EXCEPT ![field] = value],
              !.registry = IF c.ref = "" THEN c.registry
                           ELSE [c.registry EXCEPT ![c.ref] =
                                    [c.registry[c.ref] EXCEPT ![field] = value]]]

\* dataclasses.replace(config, field=value): a new object.
Replace(c, field, value) ==
    [c EXCEPT !.ref = "", !.config = [c.config EXCEPT ![field] = value]]

\* The f-string of line 247.
TopicInstructionText(topic, topic_instruction) ==
    <<"\n", "\n", "[Current Topic Context]", "\n",
      "The user has selected to talk about topic: '", Str(topic), "'.", "\n",
      "Special Instruction: ", Str(topic_instruction), "\n", "\n",
      "Tone Requirement: Be warm, empathetic, and intimate (...). Start the conversation by acknowledging their situation or the topic gently.">>

\* Lines 238-241 without the test of line 240.
FinalGreetingAlwaysPersonal(user_nickname, topic_greeting) ==
    <<"Hi ", Str(user_nickname), ", ", Str(topic_greeting)>>

\* Lines 238-241.
FinalGreeting(user_nickname, topic_greeting) ==
    IF Truthy(user_nickname) /\ user_nickname # JStr("User")
    THEN <<"Hi ", Str(user_nickname), ", ", Str(topic_greeting)>>
    ELSE <<Str(topic_greeting)>>

\* Line 228.
SelectPersona(registry, l) ==
    [registry |-> registry,
     ref |-> AgentsRef(registry, l.target_agent_id, "aura_zh"),
     config |-> AgentsGet(registry, l.target_agent_id, registry["aura_zh"]),
     raised |-> FALSE]

\* Lines 231-232.
ApplyMemory(c, l) ==
    IF l.memory_context # <<>>
    THEN Replace(c, "system_prompt", c.config.system_prompt \o l.memory_context)
    ELSE c

\* Lines 237-243.
ApplyTopicGreeting(c, l) ==
    IF Truthy(l.topic_greeting)
    THEN Replace(c, "greeting", FinalGreeting(l.user_nickname, l.topic_greeting))
    ELSE c

\* Lines 246-248.
ApplyTopicInstruction(c, l) ==
    IF Truthy(l.topic_instruction)
    THEN Replace(c, "system_prompt",
                 c.config.system_prompt \o TopicInstructionText(l.topic, l.topic_instruction))
    ELSE c

\* Lines 228-250.  AGENTS.get raises TypeError for an unhashable key, and a
\* read of a local that was never assigned raises UnboundLocalError; both
\* are outside any try.
Compose(registry, l) ==
    LET failed == [registry |-> registry, ref |-> "", config |-> registry["aura_zh"],
                   raised |-> TRUE]
    IN IF ~Hashable(l.target_agent_id) THEN failed
       ELSE LET c1 == ApplyMemory(SelectPersona(registry, l), l)
            IN IF ~Truthy(l.topic) THEN c1
               ELSE IF l.topic_greeting.t = "unbound" \/ l.topic_instruction.t = "unbound"
                 THEN [failed EXCEPT !.registry = c1.registry]
               ELSE ApplyTopicInstruction(ApplyTopicGreeting(c1, l), l)

(***************************************************************************)
(* services/recorder.py                                                    *)
(***************************************************************************)
\* TranscriptRecorder(user_id, conversation_id, room_name)
TranscriptRecorder(user_id, conversation_id) ==
    [present |-> TRUE, user_id |-> user_id, conversation_id |-> conversation_id]

NoRecorder == [present |-> FALSE, user_id |-> JNull, conversation_id |-> JNull]

\* TranscriptRecorder.record, lines 17-30: the POSTs one call issues.
\* Nothing is issued unless both identifiers are set; otherwise one POST.
RecorderRecord(rec, role, content) ==
    IF ~Truthy(rec.user_id) \/ ~Truthy(rec.conversation_id) THEN <<>>
    ELSE <<[role |-> role, content |-> content,
            userId |-> rec.user_id, conversationId |-> rec.conversation_id,
            attempt |-> 1]>>

\* The same, sending a failed POST a second time.
RecorderPostEndsRetry(post, outcome) ==
    IF outcome # "200" /\ post.attempt < 2 THEN <<[post EXCEPT !.attempt = 2]>> ELSE <<>>

\* Lines 30-37: the POSTs issued when a POST ends with a status or with a
\* transport exception: the outcome is logged and nothing is sent again.
RecorderPostEnds(post, outcome) == <<>>

(***************************************************************************)
(* main.py: AuraAgent                                                      *)
(***************************************************************************)
\* Lines 30-33.
InitRecorder(user_id, conversation_id) ==
    IF Truthy(user_id) /\ Truthy(conversation_id)
    THEN TranscriptRecorder(user_id, conversation_id)
    ELSE NoRecorder

\* The oldest assistant message of the items, 0 if none.
FirstAssistant(items, k) ==
    IF \E j \in 1..k : items[j].role = "assistant"
    THEN CHOOSE j \in 1..k :
            /\ items[j].role = "assistant"
            /\ \A h \in 1..(j - 1) : items[h].role # "assistant"
    ELSE 0

\* Lines 126-130: the last assistant message of chat_ctx.items, 0 if none.
RECURSIVE LastAssistant(_, _)
LastAssistant(items, k) ==
    IF k = 0 THEN 0
    ELSE IF items[k].role = "assistant" THEN k
    ELSE LastAssistant(items, k - 1)

\* The dedup guard dropped.
IsDuplicateNever(last_agent_content, content) == FALSE

\* Line 135: the dedup guard.
IsDuplicate(last_agent_content, content) == last_agent_content = content

\* Line 192: polling starts.
TooShort(info) == ~MetaTruthy(info) \/ MetaLen(info) < StartThreshold

\* Polling stops at the first payload that is not empty.
LongEnoughAny(info) == MetaTruthy(info)

\* Line 196: polling stops.
LongEnough(info) == MetaTruthy(info) /\ MetaLen(info) > StopThreshold

(***************************************************************************)
(* Inputs: the metadata a job or a room can carry.                         *)
(***************************************************************************)
Payload(f) == [k \in KeySet |-> IF k \in DOMAIN f THEN f[k] ELSE Absent]

ShortObject == MetaOther("{}")
TenCharObject == MetaOther("{\"a\":\"bc\"}")
RoomPayload ==
    MetaOf(Payload([userId |-> JStr("u2"), conversationId |-> JStr("c2"),
                    agentName |-> JStr("aura")]))

\* A short text that is no JSON, and the shortest object with a key that
\* entrypoint reads (11 characters).
ShortInvalid == MetaInvalid("oops")
ShortestKeyed == MetaOf(Payload([topic |-> JNum("1")]))

RoomMetas == {MetaNone, ShortObject, TenCharObject, ShortInvalid, ShortestKeyed, RoomPayload}

IdentityPayload(u, c) == MetaOf(Payload([userId |-> u, conversationId |-> c]))

IdentityPayloads ==
    {IdentityPayload(JStr("u1"), JStr("c1")),
     IdentityPayload(JNull, JStr("c1")), IdentityPayload(JStr(""), JStr("c1")),
     IdentityPayload(JStr("u1"), Absent), IdentityPayload(JStr("u1"), JStr(""))}

AgentNames ==
    {Absent, JNull, JStr("aura"), JStr("aura_zh"), JStr("nobody"), JNum("7"),
     JList(<<"aura">>), JObj(<<"name", "aura">>)}
Nicknames == {Absent, JNull, JStr(""), JStr("User"), JStr("Sam")}
MemoryValues ==
    {Absent, JNull, JList(<<>>), JList(<<"likes hiking">>),
     JList(<<"likes hiking", "has a dog">>), JNum("5")}
Topics == {Absent, JStr("stress")}
TopicGreetings == {Absent, JStr("let's talk")}
TopicInstructions == {Absent, JStr("be gentle")}
UserProfiles == {Absent, JObj(<<"nickname", "Alex">>)}

\* The payloads of an identified user, with every combination of the
\* optional fields.
RichPayloads ==
    {MetaOf([userId |-> JStr("u1"), conversationId |-> JStr("c1"),
             agentName |-> a, nickname |-> n, memories |-> m, topic |-> t,
             topicGreeting |-> g, topicInstruction |-> ti, userProfile |-> p]) :
        a \in AgentNames, n \in Nicknames, m \in MemoryValues, t \in Topics,
        g \in TopicGreetings, ti \in TopicInstructions, p \in UserProfiles}

FullPayload ==
    MetaOf(Payload([userId |-> JStr("u1"), conversationId |-> JStr("c1"),
                    agentName |-> JStr("aura"), nickname |-> JStr("Sam"),
                    memories |-> JList(<<"likes hiking">>),
                    topic |-> JStr("stress"), topicGreeting |-> JStr("let's talk"),
                    topicInstruction |-> JStr("be gentle")]))

BadMemoriesPayload ==
    MetaOf(Payload([userId |-> JStr("u1"), conversationId |-> JStr("c1"),
                    agentName |-> JStr("aura"), memories |-> JNum("5")]))

ListAgentPayload ==
    MetaOf(Payload([userId |-> JStr("u1"), conversationId |-> JStr("c1"),
                    agentName |-> JList(<<"aura">>)]))

NotJson == MetaInvalid("{not json at all")
JsonList == MetaNonObject("[1,2,3,4,5,6]")

\* The metadata of the first job of the process.
JobMetas ==
    {MetaNone, ShortObject, TenCharObject, ShortInvalid, ShortestKeyed, NotJson, JsonList}
    \cup IdentityPayloads \cup RichPayloads

\* The metadata of the later jobs.
LaterJobMetas == {MetaNone, JsonList, FullPayload, BadMemoriesPayload, ListAgentPayload}

AssistantTexts == {"", "A", "B"}
UserTexts == {"hello", "bye"}
AgentStates == {"initializing", "listening", "thinking", "speaking"}
ConnectOutcomes == {"ok", "error", "timeout"}
PostOutcomes == {"200", "500", "exception"}

(***************************************************************************)
(* State.                                                                  *)
(***************************************************************************)
VARIABLES
    AGENTS,              \* agents.py: the registry, shared by all jobs
    jobs,                \* jobs the worker has been given so far
    pc,                  \* where the entrypoint of the current job is
    i,                   \* line 172: the loop variable of the connect loop
    connected,           \* line 171
    connectCalls,        \* history: calls of ctx.connect()
    jobMetadata,         \* ctx.job.metadata
    roomMetadata,        \* ctx.room.metadata
    roomReads,           \* history: reads of ctx.room.metadata
    pollReads,           \* history: reads of ctx.room.metadata at line 195
    dispatch_info,       \* line 190
    locals,              \* lines 201-223
    composed,            \* a configuration has been composed (line 228 on)
    config,              \* lines 228-248
    recorder,            \* AuraAgent.recorder
    last_agent_content,  \* AuraAgent._last_agent_content
    sessionActive,       \* session.start has completed
    agent_state,         \* the engine's state
    chat_ctx,            \* AuraAgent.agent.chat_ctx.items
    pendingChecks,       \* _check_and_log_agent tasks in their sleep
    scheduled,           \* history: _check_and_log_agent tasks created
    agentReads,          \* history: [content, recorded, seen] of each reading
    posts,               \* history: the POSTs issued, in order
    inflight,            \* the POSTs (indices of posts) that have not ended
    recordCalls,         \* history: calls of recorder.record
    greetings,           \* history: texts given to session.say
    errorsLogged,        \* history: on_error has run
    handlerError,        \* history: a handler or a task raised
    closed,              \* the engine has closed the session
    extractorCalls       \* history: invocations of a memory extractor

vars == <<AGENTS, jobs, pc, i, connected, connectCalls, jobMetadata, roomMetadata,
          roomReads, pollReads, dispatch_info, locals, composed, config, recorder,
          last_agent_content, sessionActive, agent_state, chat_ctx, pendingChecks,
          scheduled, agentReads, posts, inflight, recordCalls, greetings, errorsLogged,
          handlerError, closed, extractorCalls>>

entryVars == <<pc, i, connected, connectCalls, roomReads, pollReads, dispatch_info,
               locals, composed, config>>

sessionVars == <<recorder, last_agent_content, sessionActive, agent_state, chat_ctx,
                 pendingChecks, scheduled, agentReads, posts, inflight, recordCalls,
                 greetings, errorsLogged, handlerError, closed, extractorCalls>>

\* The messages the engine has added to the chat context.
Messages == IF chat_ctx = <<>> THEN 0 ELSE Len(chat_ctx) - 1

NoConfig == AgentConfig("", <<>>, "", <<>>)

\* The state of a job when entrypoint is called.
JobStart(job, room) ==
    /\ pc = "connect"
    /\ i = 0
    /\ connected = FALSE
    /\ connectCalls = 0
    /\ jobMetadata = job
    /\ roomMetadata = room
    /\ roomReads = 0
    /\ pollReads = 0
    /\ dispatch_info = MetaNone
    /\ locals = DefaultLocals
    /\ composed = FALSE
    /\ config = NoConfig
    /\ recorder = NoRecorder
    /\ last_agent_content = ""
    /\ sessionActive = FALSE
    /\ agent_state = "initializing"
    /\ chat_ctx = <<>>
    /\ pendingChecks = 0
    /\ scheduled = 0
    /\ agentReads = <<>>
    /\ posts = <<>>
    /\ inflight = {}
    /\ recordCalls = 0
    /\ greetings = <<>>
    /\ errorsLogged = FALSE
    /\ handlerError = FALSE
    /\ closed = FALSE
    /\ extractorCalls = 0

Init ==
    /\ AGENTS = AGENTS_AtStart
    /\ jobs = 1
    /\ \E job \in JobMetas, room \in RoomMetas : JobStart(job, room)

(***************************************************************************)
(* entrypoint                                                              *)
(***************************************************************************)
\* The connect loop without the return of line 185.
ConnectAttemptNoReturn(outcome) ==
    /\ pc = "connect"
    /\ connectCalls' = connectCalls + 1
    /\ connected' = (outcome = "ok")
    /\ i' = IF outcome = "ok" THEN i ELSE i + 1
    /\ pc' = IF outcome = "ok" \/ i + 1 >= max_connect_retries THEN "resolve" ELSE "connect"
    /\ UNCHANGED <<AGENTS, jobs, jobMetadata, roomMetadata, roomReads, pollReads,
                   dispatch_info, locals, composed, config>>
    /\ UNCHANGED sessionVars

\* Lines 172-185: one pass of the connect loop; a failed attempt is an
\* exception of ctx.connect() or the 10 s timeout of wait_for.  After the
\* last failed attempt the loop ends and line 185 returns.
ConnectAttempt(outcome) ==
    /\ pc = "connect"
    /\ connectCalls' = connectCalls + 1
    /\ IF outcome = "ok"
       THEN /\ connected' = TRUE
            /\ i' = i
            /\ pc' = "resolve"
       ELSE /\ connected' = connected
            /\ i' = i + 1
            /\ pc' = IF i + 1 < max_connect_retries THEN "connect" ELSE "returned"
    /\ UNCHANGED <<AGENTS, jobs, jobMetadata, roomMetadata, roomReads, pollReads,
                   dispatch_info, locals, composed, config>>
    /\ UNCHANGED sessionVars

\* The room's metadata arrives or changes while the job connects and polls.
RoomMetadataSync(m) ==
    /\ pc \in {"connect", "resolve", "poll"}
    /\ roomMetadata # m
    /\ roomMetadata' = m
    /\ UNCHANGED <<AGENTS, jobs, jobMetadata>>
    /\ UNCHANGED entryVars
    /\ UNCHANGED sessionVars

\* ctx.room.metadata or ctx.job.metadata.
FirstDispatchInfoRoomFirst(job, room) == IF MetaTruthy(room) THEN room ELSE job

\* Line 190: ctx.job.metadata or ctx.room.metadata.
FirstDispatchInfo(job, room) == IF MetaTruthy(job) THEN job ELSE room

\* Lines 190-193.
ResolveDispatch ==
    /\ pc = "resolve"
    /\ dispatch_info' = FirstDispatchInfo(jobMetadata, roomMetadata)
    /\ roomReads' = IF MetaTruthy(jobMetadata) THEN roomReads ELSE roomReads + 1
    /\ pc' = IF TooShort(dispatch_info') THEN "poll" ELSE "process"
    /\ UNCHANGED <<AGENTS, jobs, i, connected, connectCalls, jobMetadata, roomMetadata,
                   pollReads, locals, composed, config>>
    /\ UNCHANGED sessionVars

\* Lines 194-198: one pass of the polling loop (the read, the test, the sleep).
PollRoom ==
    /\ pc = "poll"
    /\ dispatch_info' = roomMetadata
    /\ roomReads' = roomReads + 1
    /\ pollReads' = pollReads + 1
    /\ pc' = IF LongEnough(roomMetadata) \/ pollReads + 1 >= PollAttempts
             THEN "process" ELSE "poll"
    /\ UNCHANGED <<AGENTS, jobs, i, connected, connectCalls, jobMetadata, roomMetadata,
                   locals, composed, config>>
    /\ UNCHANGED sessionVars

\* Lines 200-253: the payload is processed, the configuration composed and
\* the AuraAgent constructed, with no await in between.  The room's metadata
\* is not read again and is no longer tracked.
ProcessConfiguration ==
    /\ pc = "process"
    /\ locals' = ProcessDispatch(dispatch_info)
    /\ LET c == Compose(AGENTS, locals')
       IN /\ AGENTS' = c.registry
          /\ IF c.raised
             THEN /\ pc' = "crashed"
                  /\ UNCHANGED <<composed, config, recorder, chat_ctx>>
             ELSE /\ pc' = "start"
                  /\ composed' = TRUE
                  /\ config' = c.config
                  /\ recorder' = InitRecorder(locals'.user_id, locals'.conversation_id)
                  /\ chat_ctx' = <<[role |-> "system", content |-> "system_prompt"]>>
    /\ roomMetadata' = MetaNone
    /\ UNCHANGED <<jobs, i, connected, connectCalls, jobMetadata, roomReads, pollReads,
                   dispatch_info, last_agent_content, sessionActive, agent_state,
                   pendingChecks, scheduled, agentReads, posts, inflight, recordCalls,
                   greetings, errorsLogged, handlerError, closed, extractorCalls>>

(***************************************************************************)
(* AuraAgent.start                                                         *)
(***************************************************************************)
\* Line 153 with the exception of session.start swallowed: the greeting
\* follows whether the session started or not.
StartSessionGreetAnyway(ok) ==
    /\ pc = "start"
    /\ sessionActive' = ok
    /\ agent_state' = IF ok THEN "listening" ELSE agent_state
    /\ pc' = IF config.greeting # <<>> THEN "greet" ELSE "done"
    /\ UNCHANGED <<AGENTS, jobs, i, connected, connectCalls, jobMetadata, roomMetadata,
                   roomReads, pollReads, dispatch_info, locals, composed, config,
                   recorder, last_agent_content, chat_ctx, pendingChecks, scheduled,
                   agentReads, posts, inflight, recordCalls, greetings, errorsLogged,
                   handlerError, closed, extractorCalls>>

\* Line 153: session.start completes, or raises (caught at line 258).  With
\* no greeting configured start() returns at once.
StartSession(ok) ==
    /\ pc = "start"
    /\ IF ok
       THEN /\ sessionActive' = TRUE
            /\ agent_state' = "listening"
            /\ pc' = IF config.greeting # <<>> THEN "greet" ELSE "done"
       ELSE /\ pc' = "failed"
            /\ UNCHANGED <<sessionActive, agent_state>>
    /\ UNCHANGED <<AGENTS, jobs, i, connected, connectCalls, jobMetadata, roomMetadata,
                   roomReads, pollReads, dispatch_info, locals, composed, config,
                   recorder, last_agent_content, chat_ctx, pendingChecks, scheduled,
                   agentReads, posts, inflight, recordCalls, greetings, errorsLogged,
                   handlerError, closed, extractorCalls>>

\* Lines 157-158: after the 1 s sleep session.say is called with the
\* greeting.  On a running session the greeting is spoken; on a session the
\* engine has closed meanwhile say() raises (caught at line 258).
SayGreeting(spoken) ==
    /\ pc = "greet"
    /\ spoken = ~closed
    /\ IF spoken
       THEN /\ greetings' = Append(greetings, config.greeting)
            /\ pc' = "done"
       ELSE /\ pc' = "failed"
            /\ UNCHANGED greetings
    /\ UNCHANGED <<AGENTS, jobs, i, connected, connectCalls, jobMetadata, roomMetadata,
                   roomReads, pollReads, dispatch_info, locals, composed, config,
                   recorder, last_agent_content, sessionActive, agent_state, chat_ctx,
                   pendingChecks, scheduled, agentReads, posts, inflight, recordCalls,
                   errorsLogged, handlerError, closed, extractorCalls>>

(***************************************************************************)
(* The session's event handlers.                                           *)
(***************************************************************************)
\* Lines 107 and 140: if self.recorder.
HasRecorder(rec) == rec.present

\* self.recorder.record(role, content) is called: the POSTs of the call join
\* the history and are in flight; with no recorder object the call raises
\* AttributeError.
CallRecord(role, content) ==
    IF recorder.present
    THEN /\ posts' = posts \o RecorderRecord(recorder, role, content)
         /\ inflight' = inflight \cup
                (Len(posts) + 1 .. Len(posts) + Len(RecorderRecord(recorder, role, content)))
         /\ recordCalls' = recordCalls + 1
         /\ UNCHANGED handlerError
    ELSE /\ handlerError' = TRUE
         /\ UNCHANGED <<posts, inflight, recordCalls>>

\* on_user_turn_completed with the dedup guard of the agent turns: an
\* utterance equal to the last message of the context is not recorded.
UserTurnCompletedDedup(text) ==
    /\ sessionActive
    /\ ~closed
    /\ Messages < MaxChat
    /\ IF HasRecorder(recorder) /\ chat_ctx[Len(chat_ctx)].content # text
       THEN CallRecord("user", text)
       ELSE UNCHANGED <<posts, inflight, recordCalls, handlerError>>
    /\ chat_ctx' = Append(chat_ctx, [role |-> "user", content |-> text])
    /\ UNCHANGED <<AGENTS, jobs, jobMetadata, roomMetadata, closed, extractorCalls>>
    /\ UNCHANGED entryVars
    /\ UNCHANGED <<recorder, last_agent_content, sessionActive, agent_state,
                   pendingChecks, scheduled, agentReads, greetings, errorsLogged>>

\* Lines 101-108: on_user_turn_completed.  The record task is created and
\* the handler returns; the engine then adds the message to the context.
\* Tasks start in the order of their creation, so the POST is issued here.
UserTurnCompleted(text) ==
    /\ sessionActive
    /\ ~closed
    /\ Messages < MaxChat
    /\ IF HasRecorder(recorder)
       THEN CallRecord("user", text)
       ELSE UNCHANGED <<posts, inflight, recordCalls, handlerError>>
    /\ chat_ctx' = Append(chat_ctx, [role |-> "user", content |-> text])
    /\ UNCHANGED <<AGENTS, jobs, jobMetadata, roomMetadata, closed, extractorCalls>>
    /\ UNCHANGED entryVars
    /\ UNCHANGED <<recorder, last_agent_content, sessionActive, agent_state,
                   pendingChecks, scheduled, agentReads, greetings, errorsLogged>>

\* The engine commits an assistant message to the chat context.
AssistantMessage(text) ==
    /\ sessionActive
    /\ ~closed
    /\ Messages < MaxChat
    /\ chat_ctx' = Append(chat_ctx, [role |-> "assistant", content |-> text])
    /\ UNCHANGED <<AGENTS, jobs, jobMetadata, roomMetadata, closed, extractorCalls>>
    /\ UNCHANGED entryVars
    /\ UNCHANGED <<recorder, last_agent_content, sessionActive, agent_state,
                   pendingChecks, scheduled, agentReads, posts, inflight, recordCalls,
                   greetings, errorsLogged, handlerError>>

\* The task created on every change of state.
SchedulesCheckAlways(old_state, new_state) == TRUE

\* Line 144: a _check_and_log_agent task is created.
SchedulesCheck(old_state, new_state) == old_state = "speaking"

\* Lines 114-145: on_agent_state.
AgentStateChanged(new_state) ==
    /\ sessionActive
    /\ ~closed
    /\ new_state # agent_state
    /\ new_state # "initializing"
    /\ agent_state' = new_state
    /\ IF SchedulesCheck(agent_state, new_state)
       THEN /\ scheduled < MaxReads
            /\ scheduled' = scheduled + 1
            /\ pendingChecks' = pendingChecks + 1
       ELSE UNCHANGED <<scheduled, pendingChecks>>
    /\ UNCHANGED <<AGENTS, jobs, jobMetadata, roomMetadata, closed, extractorCalls>>
    /\ UNCHANGED entryVars
    /\ UNCHANGED <<recorder, last_agent_content, sessionActive, chat_ctx, agentReads,
                   posts, inflight, recordCalls, greetings, errorsLogged, handlerError>>

\* Lines 120-141: a _check_and_log_agent task wakes from its sleep.  From the
\* read of the items to the call of recorder.record nothing awaits, so the
\* read, the compare, the update and the issue of the POST are one step.
CheckAndLogAgent ==
    /\ pendingChecks > 0
    /\ pendingChecks' = pendingChecks - 1
    /\ LET k == LastAssistant(chat_ctx, Len(chat_ctx))
           content == chat_ctx[k].content
       IN IF k = 0
          THEN UNCHANGED <<last_agent_content, agentReads, posts, inflight, recordCalls,
                           handlerError>>
          ELSE IF IsDuplicate(last_agent_content, content)
          THEN /\ agentReads' = Append(agentReads,
                                       [content |-> content, recorded |-> FALSE,
                                        seen |-> Len(chat_ctx)])
               /\ UNCHANGED <<last_agent_content, posts, inflight, recordCalls,
                              handlerError>>
          ELSE /\ last_agent_content' = content
               /\ agentReads' = Append(agentReads,
                                       [content |-> content,
                                        recorded |-> HasRecorder(recorder),
                                        seen |-> Len(chat_ctx)])
               /\ IF HasRecorder(recorder)
                  THEN CallRecord("agent", content)
                  ELSE UNCHANGED <<posts, inflight, recordCalls, handlerError>>
    /\ UNCHANGED <<AGENTS, jobs, jobMetadata, roomMetadata, closed, extractorCalls>>
    /\ UNCHANGED entryVars
    /\ UNCHANGED <<recorder, sessionActive, agent_state, chat_ctx, scheduled,
                   greetings, errorsLogged>>

\* on_error taking the error for the end of the session.
OnErrorCloses ==
    /\ sessionActive
    /\ ~closed
    /\ ~errorsLogged
    /\ errorsLogged' = TRUE
    /\ closed' = TRUE
    /\ pendingChecks' = 0
    /\ UNCHANGED <<AGENTS, jobs, jobMetadata, roomMetadata, extractorCalls>>
    /\ UNCHANGED entryVars
    /\ UNCHANGED <<recorder, last_agent_content, sessionActive, agent_state, chat_ctx,
                   scheduled, agentReads, posts, inflight, recordCalls,
                   greetings, handlerError>>

\* Lines 147-149: on_error logs.
OnError ==
    /\ sessionActive
    /\ ~closed
    /\ ~errorsLogged
    /\ errorsLogged' = TRUE
    /\ UNCHANGED <<AGENTS, jobs, jobMetadata, roomMetadata, closed, extractorCalls>>
    /\ UNCHANGED entryVars
    /\ UNCHANGED <<recorder, last_agent_content, sessionActive, agent_state, chat_ctx,
                   pendingChecks, scheduled, agentReads, posts, inflight, recordCalls,
                   greetings, handlerError>>

\* recorder.py lines 29-37: the POST of an earlier record call ends, with a
\* status or with a transport exception.
PostEnds(k, outcome) ==
    /\ k \in inflight
    /\ posts' = posts \o RecorderPostEnds(posts[k], outcome)
    /\ inflight' = (inflight \ {k})
                   \cup (Len(posts) + 1 .. Len(posts) + Len(RecorderPostEnds(posts[k], outcome)))
    /\ UNCHANGED <<AGENTS, jobs, jobMetadata, roomMetadata, closed, extractorCalls>>
    /\ UNCHANGED entryVars
    /\ UNCHANGED <<recorder, last_agent_content, sessionActive, agent_state, chat_ctx,
                   pendingChecks, scheduled, agentReads, recordCalls, greetings,
                   errorsLogged, handlerError>>

\* The engine closes the session: the room disconnects or the job shuts
\* down.  AuraAgent registers no handler for it and keeps no reference to the
\* tasks it created: the greeting's sleep and the _check_and_log_agent tasks
\* go on, and nothing is invoked.
SessionClose ==
    /\ sessionActive
    /\ ~closed
    /\ closed' = TRUE
    /\ UNCHANGED <<AGENTS, jobs, jobMetadata, roomMetadata, extractorCalls>>
    /\ UNCHANGED entryVars
    /\ UNCHANGED <<recorder, last_agent_content, sessionActive, agent_state, chat_ctx,
                   pendingChecks, scheduled, agentReads, posts, inflight, recordCalls,
                   greetings, errorsLogged, handlerError>>

\* The worker is given another job: entrypoint runs again in the process,
\* with the registry as the earlier jobs left it.
NewJob(job, room) ==
    /\ pc \in {"returned", "crashed", "failed", "done"}
    /\ jobs < MaxJobs
    /\ jobs' = jobs + 1
    /\ pc' = "connect"
    /\ i' = 0
    /\ connected' = FALSE
    /\ connectCalls' = 0
    /\ jobMetadata' = job
    /\ roomMetadata' = room
    /\ roomReads' = 0
    /\ pollReads' = 0
    /\ dispatch_info' = MetaNone
    /\ locals' = DefaultLocals
    /\ composed' = FALSE
    /\ config' = NoConfig
    /\ recorder' = NoRecorder
    /\ last_agent_content' = ""
    /\ sessionActive' = FALSE
    /\ agent_state' = "initializing"
    /\ chat_ctx' = <<>>
    /\ pendingChecks' = 0
    /\ scheduled' = 0
    /\ agentReads' = <<>>
    /\ posts' = <<>>
    /\ inflight' = {}
    /\ recordCalls' = 0
    /\ greetings' = <<>>
    /\ errorsLogged' = FALSE
    /\ handlerError' = FALSE
    /\ closed' = FALSE
    /\ extractorCalls' = 0
    /\ UNCHANGED AGENTS

(***************************************************************************)
(* Spec: the entrypoint of the jobs a worker process is given, from the    *)
(* call of entrypoint to the return of AuraAgent.start.                    *)
(***************************************************************************)
Connect == \E outcome \in ConnectOutcomes : ConnectAttempt(outcome)
RoomSync == \E m \in RoomMetas : RoomMetadataSync(m)
Start == \E ok \in BOOLEAN : StartSession(ok)
Greet == \E spoken \in BOOLEAN : SayGreeting(spoken)
NextJob == \E job \in LaterJobMetas, room \in {MetaNone, RoomPayload} : NewJob(job, room)

Next ==
    \/ Connect
    \/ RoomSync
    \/ ResolveDispatch
    \/ PollRoom
    \/ ProcessConfiguration
    \/ Start
    \/ Greet
    \/ NextJob

Spec == Init /\ [][Next]_vars

(***************************************************************************)
(* SpecSession: one AuraAgent from its construction on, with the events of *)
(* its session.  The agent is the one entrypoint constructs for a job      *)
(* whose metadata is in SessionMetas, connected at the first attempt.      *)
(***************************************************************************)
SessionMetas == IdentityPayloads

InitSession ==
    \E job \in SessionMetas :
        LET l == ProcessDispatch(job)
            c == Compose(AGENTS_AtStart, l)
        IN /\ AGENTS = c.registry
           /\ jobs = 1
           /\ pc = "start"
           /\ i = 0
           /\ connected = TRUE
           /\ connectCalls = 1
           /\ jobMetadata = job
           /\ roomMetadata = MetaNone
           /\ roomReads = 0
           /\ pollReads = 0
           /\ dispatch_info = job
           /\ locals = l
           /\ composed = TRUE
           /\ config = c.config
           /\ recorder = InitRecorder(l.user_id, l.conversation_id)
           /\ last_agent_content = ""
           /\ sessionActive = FALSE
           /\ agent_state = "initializing"
           /\ chat_ctx = <<[role |-> "system", content |-> "system_prompt"]>>
           /\ pendingChecks = 0
           /\ scheduled = 0
           /\ agentReads = <<>>
           /\ posts = <<>>
           /\ inflight = {}
           /\ recordCalls = 0
           /\ greetings = <<>>
           /\ errorsLogged = FALSE
    /\ handlerError = FALSE
    /\ closed = FALSE
    /\ extractorCalls = 0

UserTurn == \E text \in UserTexts : UserTurnCompleted(text)
AssistantTurn == \E text \in AssistantTexts : AssistantMessage(text)
StateChange == \E new_state \in AgentStates : AgentStateChanged(new_state)
PostDone == \E k \in inflight, outcome \in PostOutcomes : PostEnds(k, outcome)

NextSession ==
    \/ Start
    \/ Greet
    \/ UserTurn
    \/ AssistantTurn
    \/ StateChange
    \/ CheckAndLogAgent
    \/ OnError
    \/ PostDone

SpecSession == InitSession /\ [][NextSession]_vars

(***************************************************************************)
(* SpecTeardown: the same AuraAgent, with the engine closing the session.  *)
(***************************************************************************)
NextTeardown ==
    \/ NextSession
    \/ SessionClose

SpecTeardown == InitSession /\ [][NextTeardown]_vars

(***************************************************************************)
(* Properties.                                                             *)
(***************************************************************************)
\* The payload has been processed: entrypoint is past line 250, or an
\* exception left it on the way.
Processed == pc \in {"start", "greet", "done", "failed", "crashed"}

\* entrypoint is past the connect loop.
PastConnect == pc \in {"resolve", "poll", "process"} \/ Processed

\* C1: ctx.connect() is attempted at most 3 times and never again after an
\* attempt has succeeded; when all 3 attempts fail entrypoint returns with no
\* metadata resolved, no configuration composed and no agent constructed or
\* started, and stays returned; composition and start happen only after a
\* successful attempt.
C1_ConnectGate ==
    /\ [](/\ connectCalls <= max_connect_retries
          /\ (PastConnect \/ composed \/ sessionActive \/ recorder.present) => connected
          /\ pc = "returned" =>
                /\ ~connected
                /\ connectCalls = max_connect_retries
                /\ roomReads = 0
                /\ dispatch_info = MetaNone
                /\ locals = DefaultLocals
                /\ ~composed
                /\ config = NoConfig
                /\ recorder = NoRecorder
                /\ chat_ctx = <<>>
                /\ ~sessionActive)
    /\ [][(connected /\ jobs' = jobs) => (connected' /\ connectCalls' = connectCalls)]_vars
    /\ [][(pc = "returned" /\ jobs' = jobs) => UNCHANGED vars]_vars

\* C1 witness: the third attempt has failed and entrypoint has returned.
C1_Witness == pc = "returned" /\ connectCalls = 3 /\ i = 3

\* C2: whenever the processing of the payload fails, the session runs with
\* every default: no field read before the failure survives, and no
\* exception leaves the entrypoint.
C2_FailureYieldsEmpty ==
    (Processed /\ locals.error) =>
        /\ pc # "crashed"
        /\ locals = [DefaultLocals EXCEPT !.error = TRUE]
        /\ config = AGENTS_AtStart["aura_zh"]
        /\ recorder = NoRecorder

\* agentName is given and names no persona of the registry.
UnknownAgentName(info) ==
    /\ MetaTruthy(info)
    /\ info.json = "object"
    /\ info.data["agentName"].t # "absent"
    /\ ~(info.data["agentName"].t = "str"
         /\ info.data["agentName"].s \in DOMAIN AGENTS_AtStart)

\* The topic block of the locals, if one applies.
TopicBlock(l) ==
    IF Truthy(l.topic) /\ Truthy(l.topic_instruction)
    THEN TopicInstructionText(l.topic, l.topic_instruction)
    ELSE <<>>

\* C3: for every payload whose agentName is not a key of the registry, the
\* composition does not raise and the system prompt is the default
\* persona's, followed only by the memory block and the topic block that
\* apply.
C3_UnknownAgentFallsBack ==
    (Processed /\ UnknownAgentName(dispatch_info)) =>
        /\ pc # "crashed"
        /\ config.system_prompt =
              AGENTS_AtStart["aura_zh"].system_prompt \o locals.memory_context
              \o TopicBlock(locals)

\* Reading k opens a run of identical readings.
OpensRun(k) == k = 1 \/ agentReads[k - 1].content # agentReads[k].content

\* The record calls that readings k and k + 1 made.
RecordsOfPair(k) ==
    (IF agentReads[k].recorded THEN 1 ELSE 0) + (IF agentReads[k + 1].recorded THEN 1 ELSE 0)

\* C4 as stated: in a session with a recorder, two consecutive readings of
\* the latest assistant message with identical text (the first opening the
\* run) make exactly one recorder.record("agent", ...) call.
C4_IdenticalReadingsOneRecord ==
    recorder.present =>
        \A k \in 1..(Len(agentReads) - 1) :
            (OpensRun(k) /\ agentReads[k].content = agentReads[k + 1].content)
                => RecordsOfPair(k) = 1

\* C4 as amended: the same, except that a run of empty readings at the start
\* of the session equals the initial _last_agent_content and makes no call;
\* and in every case the second of two identical consecutive readings makes
\* no call, whatever the interleaving of the tasks.
C4_IdenticalReadingsAtMostOnce ==
    recorder.present =>
        \A k \in 1..(Len(agentReads) - 1) :
            agentReads[k].content = agentReads[k + 1].content =>
                /\ ~agentReads[k + 1].recorded
                /\ OpensRun(k) =>
                      RecordsOfPair(k) = (IF k = 1 /\ agentReads[k].content = "" THEN 0 ELSE 1)

\* C4 witness: two tasks read the same non-empty text one after the other
\* and a single POST of the agent's turn was issued.
C4_Witness ==
    /\ recorder.present
    /\ Len(agentReads) = 2
    /\ agentReads[1].content = "A"
    /\ agentReads[2].content = "A"
    /\ agentReads[1].recorded
    /\ ~agentReads[2].recorded
    /\ Len(posts) = 1
    /\ posts[1].role = "agent"

\* An identifier that is absent, null or empty.
Unset(v) == v.t \in {"absent", "null"} \/ (v.t = "str" /\ v.s = "")

IdentifierValues == {Absent, JNull, JStr(""), JStr("u1"), JStr("c1")}

\* C5: in a session whose userId or conversationId is unset no POST is ever
\* issued and no handler raises, whatever events have been handled; and
\* TranscriptRecorder.record with either identifier unset issues no POST.
C5_NoIdentityNoWrite ==
    /\ (Unset(jobMetadata.data["userId"]) \/ Unset(jobMetadata.data["conversationId"])) =>
          /\ posts = <<>>
          /\ inflight = {}
          /\ ~handlerError
    /\ \A u \in IdentifierValues, c \in IdentifierValues :
          (Unset(u) \/ Unset(c)) =>
              \A role \in {"user", "agent"}, content \in AssistantTexts \cup UserTexts :
                  RecorderRecord(TranscriptRecorder(u, c), role, content) = <<>>

\* C5 witness: a session with an empty userId has handled a user turn and an
\* agent reading.
C5_Witness ==
    /\ jobMetadata.data["userId"] = JStr("")
    /\ sessionActive
    /\ Len(agentReads) >= 1
    /\ agentReads[1].content = "A"
    /\ \E k \in 1..Len(chat_ctx) : chat_ctx[k].role = "user"

\* The state of the session that a write can touch.
writeVisible == <<recorder, last_agent_content, sessionActive, agent_state, chat_ctx,
                  pendingChecks, scheduled, agentReads, recordCalls, greetings,
                  errorsLogged, handlerError, pc>>

\* C6: each record call with the identity set makes exactly one POST, never
\* sent again whatever its outcome; the end of a POST (status 200, another
\* status, an exception) raises nothing and leaves the session as it was.
C6_OneAttemptNoRetry ==
    /\ [](/\ recorder.present => Len(posts) = recordCalls
          /\ inflight \subseteq 1..Len(posts)
          /\ ~handlerError
          /\ \A k \in 1..Len(posts) : posts[k].attempt = 1)
    /\ [][(inflight' # inflight /\ Len(posts') = Len(posts)) => UNCHANGED writeVisible]_vars

\* C6 witness: two record calls were made, two POSTs issued, one has ended
\* and the other is still in flight.
C6_Witness ==
    /\ recorder.present
    /\ recordCalls = 2
    /\ Len(posts) = 2
    /\ Cardinality(inflight) = 1

\* C7: the persona registry is never mutated: whatever payloads the jobs of
\* the process have composed configurations from, every entry of AGENTS has
\* the system prompt and the greeting it had at the start of the process.
C7_RegistryNeverMutated ==
    /\ DOMAIN AGENTS = DOMAIN AGENTS_AtStart
    /\ \A k \in DOMAIN AGENTS_AtStart :
          /\ AGENTS[k].system_prompt = AGENTS_AtStart[k].system_prompt
          /\ AGENTS[k].greeting = AGENTS_AtStart[k].greeting
          /\ AGENTS[k] = AGENTS_AtStart[k]

\* C7 witness: the second job of the process has composed a configuration
\* whose prompt and greeting both differ from the persona's.
C7_Witness ==
    /\ jobs = 2
    /\ composed
    /\ locals.target_agent_id = JStr("aura")
    /\ config.system_prompt # AGENTS_AtStart["aura"].system_prompt
    /\ config.greeting # AGENTS_AtStart["aura"].greeting

\* entrypoint is past the resolution of the metadata (line 198).
Resolved == pc = "process" \/ Processed

\* C8: when the job metadata is absent or too short the room metadata is
\* read at most 5 times, the polling stops at the first read that exceeds
\* the threshold and that payload is resolved; one threshold decides both
\* whether the polling starts and whether it stops: a payload is accepted
\* without polling exactly when it would stop the polling.
C8_PollingClaim ==
    /\ roomReads <= PollAttempts
    /\ (Resolved /\ pollReads > 0) =>
          /\ dispatch_info = roomMetadata \/ Processed
          /\ LongEnough(dispatch_info) \/ pollReads = PollAttempts
    /\ (Resolved /\ pollReads = 0) => LongEnough(dispatch_info)
    /\ (Resolved /\ pollReads = PollAttempts /\ ~LongEnough(dispatch_info))
          => TooShort(dispatch_info)

\* C9: a job metadata that is present and longer than the threshold is the
\* payload resolved: the room metadata is never read and the locals, the
\* configuration and the recorder are those of the job metadata.
C9_JobMetadataPreferred ==
    (MetaTruthy(jobMetadata) /\ MetaLen(jobMetadata) > StartThreshold) =>
        /\ roomReads = 0
        /\ pollReads = 0
        /\ pc # "poll"
        /\ Resolved => dispatch_info = jobMetadata
        /\ Processed => locals = ProcessDispatch(jobMetadata)
        /\ composed =>
              /\ config = Compose(AGENTS_AtStart, ProcessDispatch(jobMetadata)).config
              /\ recorder = InitRecorder(ProcessDispatch(jobMetadata).user_id,
                                         ProcessDispatch(jobMetadata).conversation_id)

\* C9 witness: the job metadata has been resolved while the room carried a
\* long payload of its own.
C9_Witness ==
    /\ pc = "process"
    /\ jobMetadata = FullPayload
    /\ roomMetadata = RoomPayload
    /\ dispatch_info = FullPayload

\* The line occurs in the text as a line of its own.
HasLine(text, line) ==
    \E p \in 1..Len(text) :
        /\ p + Len(line) - 1 <= Len(text)
        /\ SubSeq(text, p, p + Len(line) - 1) = line
        /\ p = 1 \/ text[p - 1] = "\n"
        /\ p + Len(line) > Len(text) \/ text[p + Len(line)] = "\n"

Contains(text, token) == \E p \in 1..Len(text) : text[p] = token

\* The user's display name as the payload gives it: userProfile.nickname,
\* or nickname, or the placeholder.
DisplayName(data) ==
    IF data["userProfile"].t = "obj" /\ Len(data["userProfile"].items) >= 2
       /\ data["userProfile"].items[1] = "nickname"
    THEN data["userProfile"].items[2]
    ELSE IF data["nickname"].t = "str" /\ data["nickname"].s # ""
    THEN data["nickname"].s
    ELSE "User"

\* C10: for every non-empty memories list the composed system prompt holds
\* every memory item as a line of its own and the user's display name (the
\* placeholder "User" is in the block's fixed text); for an empty or absent
\* list the prompt is the persona's prompt plus the topic block.
C10_MemoryBlock ==
    (composed /\ MetaTruthy(dispatch_info) /\ dispatch_info.json = "object") =>
        LET data == dispatch_info.data
            mem == data["memories"]
            persona == AgentsGet(AGENTS_AtStart, DictGet(data, "agentName", JStr("aura_zh")),
                                 AGENTS_AtStart["aura_zh"])
        IN /\ (mem.t = "list" /\ mem.items # <<>>) =>
                 /\ \A j \in 1..Len(mem.items) :
                       HasLine(config.system_prompt, <<"- ", mem.items[j]>>)
                 /\ DisplayName(data) = "User"
                       \/ Contains(config.system_prompt, DisplayName(data))
           /\ (mem.t = "absent" \/ (mem.t = "list" /\ mem.items = <<>>)) =>
                 config.system_prompt = persona.system_prompt \o TopicBlock(locals)

\* The payload's nickname field holds a name other than the placeholder.
NicknameKnown(data) ==
    data["nickname"].t = "str" /\ data["nickname"].s \notin {"", "User"}

C12_GreetingAfterStart ==
    /\ [](/\ Len(greetings) <= 1
          /\ greetings # <<>> =>
                (sessionActive /\ config.greeting # <<>> /\ greetings = <<config.greeting>>)
          /\ pc = "greet" => (sessionActive /\ config.greeting # <<>>)
          /\ pc = "failed" => (greetings = <<>> /\ ~sessionActive))
    /\ [][(greetings' # greetings /\ jobs' = jobs) =>
             (sessionActive /\ pc = "greet" /\ greetings = <<>>
              /\ greetings' = <<config.greeting>>)]_vars

\* C12 witness: the greeting has been spoken in a started session.
C12_Witness ==
    /\ pc = "done"
    /\ sessionActive
    /\ Len(greetings) = 1

\* Everything of the state but the history of on_error.
exceptErrorsLogged ==
    <<AGENTS, jobs, entryVars, jobMetadata, roomMetadata, recorder, last_agent_content,
      sessionActive, agent_state, chat_ctx, pendingChecks, scheduled, agentReads, posts,
      inflight, recordCalls, greetings, handlerError, closed, extractorCalls>>

\* C13: an error notification of the engine changes nothing of the session:
\* the session stays open, the dedup cache and the pending tasks are as they
\* were; and after it a user turn is still recorded, a change out of
\* speaking still schedules a read, and a read still records the latest
\* assistant message unless it equals the dedup cache.
C13_ErrorIgnored ==
    /\ [][errorsLogged' # errorsLogged => UNCHANGED exceptErrorsLogged]_vars
    /\ [][(errorsLogged /\ Len(chat_ctx') > Len(chat_ctx) /\ recorder.present
           /\ chat_ctx'[Len(chat_ctx')].role = "user") =>
             /\ Len(posts') = Len(posts) + 1
             /\ posts'[Len(posts')].role = "user"
             /\ posts'[Len(posts')].content = chat_ctx'[Len(chat_ctx')].content]_vars
    /\ [][(errorsLogged /\ agent_state = "speaking" /\ agent_state' # agent_state) =>
             pendingChecks' = pendingChecks + 1]_vars
    /\ [][(errorsLogged /\ pendingChecks' < pendingChecks
           /\ LastAssistant(chat_ctx, Len(chat_ctx)) # 0) =>
             LET content == chat_ctx[LastAssistant(chat_ctx, Len(chat_ctx))].content
             IN IF content = last_agent_content
                THEN UNCHANGED <<last_agent_content, posts>>
                ELSE /\ last_agent_content' = content
                     /\ recorder.present =>
                           /\ Len(posts') = Len(posts) + 1
                           /\ posts'[Len(posts')].role = "agent"
                           /\ posts'[Len(posts')].content = content]_vars

\* C13 witness: an error has been reported in a session that went on to
\* record an agent turn while a second read is pending.
C13_Witness ==
    /\ errorsLogged
    /\ ~closed
    /\ pendingChecks > 0
    /\ \E k \in 1..Len(posts) : posts[k].role = "agent"

\* The POSTs of agent turns issued so far.
AgentPosts == {k \in 1..Len(posts) : posts[k].role = "agent"}

\* C14: once the session has been torn down no pending settle-delay task
\* reads the chat context or issues an agent transcript record, and no
\* greeting is spoken.
C14_TeardownCancels ==
    [][closed =>
          /\ agentReads' = agentReads
          /\ last_agent_content' = last_agent_content
          /\ \A k \in 1..Len(posts') : posts'[k].role = "agent" => k \in AgentPosts
          /\ greetings' = greetings]_vars

\* C15: when a session with a userId has terminated the memory extractor
\* has been invoked exactly once; without a userId it persists nothing.
C15_MemoryExtractorOnce ==
    /\ extractorCalls <= 1
    /\ (closed /\ Truthy(locals.user_id)) => extractorCalls = 1

IsUser(m) == m.role = "user"

\* The texts of the user's entries of a sequence of messages or of POSTs.
UserContents(xs) ==
    [k \in 1..Len(SelectSeq(xs, IsUser)) |-> SelectSeq(xs, IsUser)[k].content]

\* C16: with identity set every user-turn-completed notification gives one
\* record("user") call with its utterance: the POSTs of the user's turns are
\* the user's utterances, one each, repeated ones included, in the order of
\* the notifications; and the POST is still in flight when the handler has
\* returned.
C16_UserTurnsRecorded ==
    /\ [](recorder.present =>
            /\ UserContents(posts) = UserContents(chat_ctx)
            /\ \A k \in 1..Len(posts) :
                  posts[k].role = "user" =>
                      /\ posts[k].userId = recorder.user_id
                      /\ posts[k].conversationId = recorder.conversation_id)
    /\ [][(recorder.present /\ Len(chat_ctx') > Len(chat_ctx)
           /\ chat_ctx'[Len(chat_ctx')].role = "user") =>
             /\ Len(posts') = Len(posts) + 1
             /\ recordCalls' = recordCalls + 1
             /\ posts'[Len(posts')].role = "user"
             /\ posts'[Len(posts')].content = chat_ctx'[Len(chat_ctx')].content
             /\ Len(posts') \in inflight']_vars

\* C16 witness: the user has said the same twice in a row and both turns
\* have been recorded.
C16_Witness ==
    /\ recorder.present
    /\ UserContents(chat_ctx) = <<"hello", "hello">>
    /\ UserContents(posts) = <<"hello", "hello">>

\* The payload carries a nickname under userProfile and none at the top.
NicknameOnlyInProfile(data) ==
    /\ data["nickname"].t = "absent"
    /\ data["userProfile"].t = "obj"
    /\ Len(data["userProfile"].items) >= 2
    /\ data["userProfile"].items[1] = "nickname"

\* C17: a payload with the nickname only under userProfile.nickname yields a
\* memory block that holds that nickname and a topic greeting personalized
\* with it, not the placeholder "User".
C17_ProfileNickname ==
    (composed /\ MetaTruthy(dispatch_info) /\ dispatch_info.json = "object"
     /\ NicknameOnlyInProfile(dispatch_info.data)) =>
        LET data == dispatch_info.data
            name == data["userProfile"].items[2]
        IN /\ (data["memories"].t = "list" /\ data["memories"].items # <<>>) =>
                 /\ HasLine(config.system_prompt, <<"User Name: ", name>>)
                 /\ ~Contains(locals.memory_context, "User")
           /\ (data["topic"].t = "str" /\ data["topic"].s # ""
               /\ data["topicGreeting"].t = "str" /\ data["topicGreeting"].s # "") =>
                 config.greeting = <<"Hi ", name, ", ", data["topicGreeting"].s>>

\* C18: a settle-delayed read is scheduled only on a transition from
\* speaking into listening; any other change of state schedules none.
C18_OnlySpeakingToListening ==
    [][scheduled' > scheduled =>
          (agent_state = "speaking" /\ agent_state' = "listening")]_vars

\* C18 as amended: a settle-delayed read is scheduled on every transition
\* out of speaking, whatever the new state, and on no transition whose old
\* state is not speaking; every reading and every agent transcript record
\* comes from such a read.
C18_OnlyOutOfSpeaking ==
    /\ [][scheduled' > scheduled <=>
             (agent_state = "speaking" /\ agent_state' # agent_state)]_vars
    /\ [][pendingChecks' > pendingChecks => scheduled' = scheduled + 1]_vars
    /\ [](/\ Len(agentReads) + pendingChecks <= scheduled
          /\ Cardinality(AgentPosts) <= Len(agentReads))

\* C18 witness: a read scheduled when the engine left speaking has recorded
\* an agent turn, and the engine is thinking.
C18_Witness ==
    /\ scheduled = 1
    /\ agent_state = "thinking"
    /\ Len(agentReads) = 1
    /\ AgentPosts # {}

IsAssistant(m) == m.role = "assistant"

\* The texts of the assistant's messages of the chat context, in order.
AssistantContents ==
    [k \in 1..Len(SelectSeq(chat_ctx, IsAssistant)) |->
        SelectSeq(chat_ctx, IsAssistant)[k].content]

\* The engine has committed two different utterances A then B and every
\* reading so far ran after both were in the context.
TwoBeforeRead ==
    /\ recorder.present
    /\ Len(AssistantContents) = 2
    /\ AssistantContents[1] # AssistantContents[2]
    /\ agentReads # <<>>
    /\ \A k \in 1..Len(agentReads) :
          agentReads[k].seen >= LastAssistant(chat_ctx, Len(chat_ctx))

\* The POSTs of agent turns with the given text.
AgentPostsOf(text) == {k \in AgentPosts : posts[k].content = text}

\* C19: when two different utterances A then B are committed before the
\* read for A runs, A is never handed to the recorder, B is recorded exactly
\* once and every later read is suppressed; and two consecutive agent turns
\* with the same text yield one record only.
C19_LastWriteWins ==
    /\ TwoBeforeRead =>
          /\ AgentPostsOf(AssistantContents[1]) = {}
          /\ Cardinality(AgentPostsOf(AssistantContents[2])) = 1
          /\ agentReads[1].recorded
          /\ \A k \in 2..Len(agentReads) : ~agentReads[k].recorded
    /\ (recorder.present /\ Len(AssistantContents) = 2
        /\ AssistantContents[1] = AssistantContents[2]) =>
          Cardinality(AgentPosts) <= 1

\* C19 as amended: the same, but B is recorded once only if it differs from
\* the dedup cache, which is "" at the start of the session: an empty B is
\* not recorded at all.
C19_LastWriteWinsUnlessCached ==
    /\ TwoBeforeRead =>
          /\ \A k \in 1..Len(agentReads) : agentReads[k].content = AssistantContents[2]
          /\ AgentPostsOf(AssistantContents[1]) = {}
          /\ Cardinality(AgentPostsOf(AssistantContents[2]))
                = (IF AssistantContents[2] = "" THEN 0 ELSE 1)
          /\ agentReads[1].recorded = (AssistantContents[2] # "")
          /\ \A k \in 2..Len(agentReads) : ~agentReads[k].recorded
          /\ last_agent_content = AssistantContents[2]
    /\ (recorder.present /\ Len(AssistantContents) = 2
        /\ AssistantContents[1] = AssistantContents[2]) =>
          Cardinality(AgentPosts) <= 1

\* C19 witness: A and B were committed, two reads ran after both, B was
\* recorded by the first and the second was suppressed.
C19_Witness ==
    /\ TwoBeforeRead
    /\ AssistantContents = <<"A", "B">>
    /\ Len(agentReads) = 2
    /\ agentReads[1].recorded
    /\ ~agentReads[2].recorded
    /\ Cardinality(AgentPosts) = 1

\* The payload is empty or does not exceed the threshold.
NotExceeding(info) == ~MetaTruthy(info) \/ MetaLen(info) <= StopThreshold

\* C20: a payload that does not exceed the threshold is never parsed: when
\* the polls are exhausted without a long payload the resolution is empty,
\* and a short job payload is not replaced by a short room payload.
C20_ShortNeverParsed ==
    /\ (Resolved /\ NotExceeding(dispatch_info)) => ~MetaTruthy(dispatch_info)
    /\ (Resolved /\ MetaTruthy(jobMetadata) /\ NotExceeding(dispatch_info)) =>
          (dispatch_info = jobMetadata \/ ~MetaTruthy(dispatch_info))

\* C20 as amended: a payload that does not exceed the threshold is resolved
\* only once all polls have failed to read a long one (or, for a payload of
\* exactly the threshold's length found at line 190, without polling); it is
\* parsed, but being too short to hold any field entrypoint reads it changes
\* nothing: the session has every default, and only a parse failure is
\* logged.
C20_ShortChangesNothing ==
    /\ (Resolved /\ pollReads > 0 /\ NotExceeding(dispatch_info)) => pollReads = PollAttempts
    /\ (Resolved /\ pollReads = 0 /\ NotExceeding(dispatch_info)) =>
          (MetaTruthy(dispatch_info) /\ MetaLen(dispatch_info) = StartThreshold)
    /\ (Processed /\ NotExceeding(dispatch_info)) =>
          /\ pc # "crashed"
          /\ locals.error = (MetaTruthy(dispatch_info) /\ dispatch_info.json # "object")
          /\ locals.target_agent_id = DefaultLocals.target_agent_id
          /\ locals.user_nickname = DefaultLocals.user_nickname
          /\ locals.memory_context = DefaultLocals.memory_context
          /\ locals.user_id = JNull
          /\ locals.conversation_id = JNull
          /\ locals.topic = JNull
          /\ ~Truthy(locals.topic_greeting)
          /\ ~Truthy(locals.topic_instruction)
          /\ config = AGENTS_AtStart["aura_zh"]
          /\ recorder = NoRecorder

\* C20 witness: the job's metadata was short, five polls read nothing long,
\* and the session was configured after the short text read last was parsed.
C20_Witness ==
    /\ pc = "start"
    /\ jobMetadata = ShortObject
    /\ pollReads = PollAttempts
    /\ dispatch_info = ShortInvalid
    /\ locals.error

====
